---- MODULE Spec2Model ----
(***************************************************************************)
(* Synthetic usage-data generators of the repository:                      *)
(*   function.py                  generate_account_data, generate_churn_records, *)
(*                                generate_usage_table, generate_all_tables *)
(*   generate_phone_usage_data.py temporal factors and generate_user_usage  *)
(*   generate_realistic_data.py   the 2021-01..2025-12 cohort generator      *)
(* Dates are records [year, month, day]; a formatted '%Y-%m-%d' string is    *)
(* the number yyyymmdd, which orders and parses as the string does.         *)
(* Random draws are nondeterministic choices over small sets of values the  *)
(* call can return.                                                         *)
(***************************************************************************)
EXTENDS Integers, Sequences, FiniteSets, TLC

VARIABLES
    \* ---- function.generate_all_tables ----
    pc,              \* position in generate_all_tables
    ea_id,           \* loop variable of generate_account_data
    records,         \* local list of generate_account_data
    account_df,      \* account table (rows sorted by SERVICE_ACCOUNT_ID, MONTH)
    churn_records,   \* list returned by generate_churn_records
    usage_df,        \* usage table
    files,           \* names of the CSV files written so far
    save_to_csv,     \* argument of generate_all_tables
    config,          \* module globals and arguments the call runs with
    \* ---- generate_phone_usage_data.generate_user_usage ----
    u_pc,            \* position in generate_user_usage
    profile_type,    \* key of user_profiles whose values are base_values
    is_churned,      \* argument
    churn_month,     \* argument (None when the account did not churn)
    churn_decline,   \* array of decline factors, in thousandths
    month_idx,       \* loop variable
    month_data,      \* the row built in the current iteration
    usage_data,      \* number of rows appended to usage_data so far
    \* ---- generate_realistic_data.main ----
    r_pc,               \* position in main
    account_id,         \* loop variable of generate_accounts
    accounts,           \* list returned by generate_accounts
    usage_records,      \* list returned by generate_usage_data
    attributes_records, \* list returned by generate_account_attributes
    r_churn_records,    \* list returned by generate_realistic_data.generate_churn_records
    hashseed,           \* the process's string-hash seed (PYTHONHASHSEED)
    \* ---- two runs of one generator with the same configuration and seed ----
    generator,       \* the module that is run twice
    run_pc,          \* position of each run
    py_hashseed,     \* string-hash seed of the interpreter of each run
    rng,             \* state of the random module's generator in each run
    tables,          \* the tables each run produced
    \* ---- test_long_accounts.generate_test_account_data ----
    t_pc,            \* position in generate_test_account_data
    t_ea_id,         \* loop variable ea_id
    t_month_idx,     \* loop variable month_idx
    t_fixed,         \* the fixed attributes picked for the current account
    current_package, \* current_package_id, current_package_name
    t_records,       \* records
    \* ---- generate_realistic_data.generate_usage_pattern ----
    p_pc,            \* position in generate_usage_pattern
    p_account,       \* the account generate_usage_data calls it for
    base_calls_per_user,
    trend_type,
    p_month_idx,     \* loop variable month_idx
    p_usage_data,    \* usage_data (USERID, MONTH and PHONE_TOTAL_CALLS of each row)
    p_row,           \* the count metrics of the dict one iteration appends
    \* ---- snowflake_loader.load_all_data ----
    l_pc,            \* position in load_all_data
    l_args,          \* truncate, from_dataframes and the DataFrames passed
    conn,            \* the Snowflake connection
    created_tables,  \* tables created by create_all_tables
    load_results,    \* success flag of each load call made, in order
    l_return,        \* the value load_all_data returns
    \* ---- snowflake_access_manager.AccessManager.setup_*_access ----
    a_pc,            \* position in the setup method
    a_args,          \* which setup, whether user_name is given, whether connect() was called
    a_step,          \* number of steps of the setup already called
    step_results,    \* return value of each step called, in order
    granted,         \* statements the cursor executed
    a_return         \* the value the setup returns

fnVars == <<pc, ea_id, records, account_df, churn_records, usage_df, files, save_to_csv,
            config>>

usVars == <<u_pc, profile_type, is_churned, churn_month, churn_decline, month_idx,
            month_data, usage_data>>

detVars == <<generator, run_pc, py_hashseed, rng, tables>>

longVars == <<t_pc, t_ea_id, t_month_idx, t_fixed, current_package, t_records>>

patVars == <<p_pc, p_account, base_calls_per_user, trend_type, p_month_idx, p_usage_data,
             p_row>>

loadVars == <<l_pc, l_args, conn, created_tables, load_results, l_return>>

realVars == <<r_pc, account_id, accounts, usage_records, attributes_records,
              r_churn_records, hashseed>>

accessVars == <<a_pc, a_args, a_step, step_results, granted, a_return>>

notFnVars == <<usVars, realVars, detVars, longVars, patVars, loadVars, accessVars>>
notUsVars == <<fnVars, realVars, detVars, longVars, patVars, loadVars, accessVars>>
notRealVars == <<fnVars, usVars, detVars, longVars, patVars, loadVars, accessVars>>
notDetVars == <<fnVars, usVars, realVars, longVars, patVars, loadVars, accessVars>>
notLongVars == <<fnVars, usVars, realVars, detVars, patVars, loadVars, accessVars>>
notPatVars == <<fnVars, usVars, realVars, detVars, longVars, loadVars, accessVars>>
notLoadVars == <<fnVars, usVars, realVars, detVars, longVars, patVars, accessVars>>

notAccessVars == <<fnVars, usVars, realVars, detVars, longVars, patVars, loadVars>>

vars == <<fnVars, usVars, realVars, detVars, longVars, patVars, loadVars, accessVars>>

----------------------------------------------------------------------------
(* Calendar: datetime, timedelta, relativedelta, strftime, pd.to_datetime *)

IsLeap(y) == (y % 4 = 0 /\ y % 100 # 0) \/ y % 400 = 0

DaysInMonth(y, m) ==
    IF m = 2 THEN (IF IsLeap(y) THEN 29 ELSE 28)
    ELSE IF m \in {4, 6, 9, 11} THEN 30 ELSE 31

datetime(y, m, d) == [year |-> y, month |-> m, day |-> d]

\* dt + timedelta(days = n), n >= 0
RECURSIVE PlusDays(_, _)
PlusDays(dt, n) ==
    IF dt.day + n <= DaysInMonth(dt.year, dt.month)
    THEN datetime(dt.year, dt.month, dt.day + n)
    ELSE PlusDays(datetime(IF dt.month = 12 THEN dt.year + 1 ELSE dt.year,
                           IF dt.month = 12 THEN 1 ELSE dt.month + 1, 1),
                  n - (DaysInMonth(dt.year, dt.month) - dt.day + 1))

MonthCount(dt) == dt.year * 12 + (dt.month - 1)

Min2(a, b) == IF a < b THEN a ELSE b

\* dt + relativedelta(months = k), k of either sign; the day is clipped
PlusMonths(dt, k) ==
    LET mc == MonthCount(dt) + k
        y  == mc \div 12
        m  == (mc % 12) + 1
    IN datetime(y, m, Min2(dt.day, DaysInMonth(y, m)))

\* dt.strftime('%Y-%m-%d')
strftime(dt) == dt.year * 10000 + dt.month * 100 + dt.day

\* pd.to_datetime('yyyy-mm-dd')
to_datetime(s) == datetime(s \div 10000, (s \div 100) % 100, s % 100)

\* (a.year - b.year) * 12 + (a.month - b.month)
MonthsDiff(a, b) == (a.year - b.year) * 12 + (a.month - b.month)

----------------------------------------------------------------------------
(* Sequence helpers standing for pandas operations *)

RECURSIVE UniqueSeq(_)
\* Series.unique(): the distinct values in order of first appearance
UniqueSeq(s) ==
    IF s = <<>> THEN <<>>
    ELSE LET r == UniqueSeq(SubSeq(s, 1, Len(s) - 1))
             x == s[Len(s)]
         IN IF \E i \in 1..Len(r) : r[i] = x THEN r ELSE Append(r, x)

Column(rows, f) == [i \in 1..Len(rows) |-> rows[i][f]]

\* order of two datetimes
DateLess(a, b) ==
    \/ a.year < b.year
    \/ a.year = b.year /\ a.month < b.month
    \/ a.year = b.year /\ a.month = b.month /\ a.day < b.day

\* the latest of a set of dates
DateMax(S) == CHOOSE x \in S : \A y \in S : ~DateLess(x, y)

\* Series.min() of datetimes
DateMin(S) == CHOOSE x \in S : \A y \in S : ~DateLess(y, x)

\* row order of sort_values(['SERVICE_ACCOUNT_ID', 'MONTH']), MONTH a datetime
RowLess(a, b) ==
    \/ a.SERVICE_ACCOUNT_ID < b.SERVICE_ACCOUNT_ID
    \/ /\ a.SERVICE_ACCOUNT_ID = b.SERVICE_ACCOUNT_ID
       /\ DateLess(a.MONTH, b.MONTH)

RECURSIVE InsertRow(_, _)
InsertRow(sorted, r) ==
    IF sorted = <<>> THEN <<r>>
    ELSE IF RowLess(r, sorted[Len(sorted)])
         THEN Append(InsertRow(SubSeq(sorted, 1, Len(sorted) - 1), r), sorted[Len(sorted)])
         ELSE Append(sorted, r)

RECURSIVE sort_values(_)
\* df.sort_values(['SERVICE_ACCOUNT_ID', 'MONTH']): a stable sort
sort_values(rows) ==
    IF rows = <<>> THEN <<>>
    ELSE InsertRow(sort_values(SubSeq(rows, 1, Len(rows) - 1)), rows[Len(rows)])

----------------------------------------------------------------------------
(* Configuration the scripts assign onto the function module *)

NumEnterpriseAccounts == 2
NUM_ENTERPRISE_ACCOUNTS == NumEnterpriseAccounts

\* the num_months argument of generate_all_tables
NumUsageMonths == 9

\* function.MOST_RECENT_MONTH, set so that the account months fall inside the
\* usage window that starts at 2023-01-01
MOST_RECENT_MONTH == datetime(2023, 8, 1)

COMPANIES == <<"Acme Corp">>
BRANDS == << <<1, "Brand A">> >>
PACKAGES == << <<100, "Basic Plan">> >>
TIERS == << <<1, "Tier 1">> >>
OPCOS == <<"OPCO-US">>

\* values of random.randint(5, 20) the model draws
MIN_ACCOUNT_MONTHS == 5
NumMonthsDraws == {MIN_ACCOUNT_MONTHS}

\* values of random.randint(1000, 9999) the model draws
MIN_SERVICE_ACCOUNT_ID == 1000
ServiceAccountIdDraws == {MIN_SERVICE_ACCOUNT_ID, MIN_SERVICE_ACCOUNT_ID + 1}

\* value of random.randint(100000, 999999) the model draws
MIN_BAN == 100000
BanDraws == {MIN_BAN}

Range(s) == {s[i] : i \in 1..Len(s)}

----------------------------------------------------------------------------
(* function.generate_month_sequence *)

generate_month_sequence(num_months) ==
    [k \in 1..num_months |-> PlusMonths(MOST_RECENT_MONTH, -(num_months - k))]

(* function.generate_account_data: one monthly record *)
AccountRecord(month, ea, fixed, sa_acct_status) ==
    [MONTH                 |-> strftime(month),
     ENTERPRISE_ACCOUNT_ID |-> ea,
     COMPANY               |-> fixed.company,
     EA_BRAND_ID           |-> fixed.ea_brand[1],
     EA_BRAND_NAME         |-> fixed.ea_brand[2],
     SERVICE_ACCOUNT_ID    |-> fixed.service_account_id,
     SA_BRAND_ID           |-> fixed.sa_brand[1],
     SA_BRAND_NAME         |-> fixed.sa_brand[2],
     SA_ACCT_STATUS        |-> sa_acct_status,
     PACKAGE_NAME          |-> fixed.package[2],
     TIER_ID               |-> fixed.tier[1],
     TIER_NAME             |-> fixed.tier[2],
     EXTERNAL_ACCOUNT_ID   |-> ea,
     BAN                   |-> fixed.ban,
     OPCO_ID               |-> fixed.opco_id]

\* the records of one enterprise account when the month loop does not stop at
\* inactive_from_month
AccountRecordsOfNoBreak(ea, months, fixed, will_become_inactive, inactive_from_index, non_active_status) ==
    LET active == [k \in 1..Len(months) |-> AccountRecord(months[k], ea, fixed, "Active")]
    IN IF will_become_inactive
       THEN Append(active, AccountRecord(months[inactive_from_index + 1], ea, fixed, non_active_status))
       ELSE active

\* the records of one enterprise account: Active rows up to the month before
\* inactive_from_month, then one row with the non-active status
AccountRecordsOf(ea, months, fixed, will_become_inactive, inactive_from_index, non_active_status) ==
    LET last == IF will_become_inactive THEN inactive_from_index ELSE Len(months)
        active == [k \in 1..last |-> AccountRecord(months[k], ea, fixed, "Active")]
    IN IF will_become_inactive
       THEN Append(active, AccountRecord(months[inactive_from_index + 1], ea, fixed, non_active_status))
       ELSE active

FixedAttributes ==
    [company : Range(COMPANIES), ea_brand : Range(BRANDS), sa_brand : Range(BRANDS),
     service_account_id : ServiceAccountIdDraws, package : Range(config.PACKAGES),
     tier : Range(TIERS), ban : BanDraws, opco_id : Range(OPCOS)]

----------------------------------------------------------------------------
\* None of Python
None == -1

\* the variables of a generator that is not running
FnIdle ==
    /\ pc = "idle"
    /\ ea_id = 1
    /\ records = <<>>
    /\ account_df = <<>>
    /\ churn_records = <<>>
    /\ usage_df = <<>>
    /\ files = {}
    /\ save_to_csv = FALSE
    /\ config = [NUM_ENTERPRISE_ACCOUNTS |-> NUM_ENTERPRISE_ACCOUNTS, unset |-> {},
                 num_months |-> NumUsageMonths, PACKAGES |-> PACKAGES]

UsIdle ==
    /\ u_pc = "idle"
    /\ profile_type = "light"
    /\ is_churned = FALSE
    /\ churn_month = None
    /\ churn_decline = <<>>
    /\ month_idx = 0
    /\ month_data = <<>>
    /\ usage_data = 0

RealIdle ==
    /\ r_pc = "idle"
    /\ account_id = 0
    /\ accounts = <<>>
    /\ usage_records = <<>>
    /\ attributes_records = <<>>
    /\ r_churn_records = <<>>
    /\ hashseed = 0

\* the fixed attributes of an account before any account is generated
NoFixed ==
    [company |-> "", ea_brand |-> <<0, "">>, sa_brand |-> <<0, "">>, service_account_id |-> 0,
     package |-> <<0, "">>, tier |-> <<0, "">>, ban |-> 0, opco_id |-> ""]

LongIdle ==
    /\ t_pc = "idle"
    /\ t_ea_id = 1
    /\ t_month_idx = 0
    /\ t_fixed = NoFixed
    /\ current_package = <<0, "">>
    /\ t_records = <<>>

PatIdle ==
    /\ p_pc = "idle"
    /\ p_account = [account_id |-> 0]
    /\ base_calls_per_user = 0
    /\ trend_type = "stable"
    /\ p_month_idx = 0
    /\ p_usage_data = <<>>
    /\ p_row = <<>>

LoadIdle ==
    /\ l_pc = "idle"
    /\ l_args = [truncate |-> FALSE, from_dataframes |-> FALSE, dataframes |-> {}]
    /\ conn = "none"
    /\ created_tables = {}
    /\ load_results = <<>>
    /\ l_return = "None"

AccessIdle ==
    /\ a_pc = "idle"
    /\ a_args = [setup |-> "read_only", user_name |-> FALSE, connected |-> FALSE]
    /\ a_step = 0
    /\ step_results = <<>>
    /\ granted = {}
    /\ a_return = "None"

Runs == {1, 2}

NoTables == [accounts |-> <<>>, attributes |-> <<>>, usage |-> <<>>, churn |-> <<>>]

DetIdle ==
    /\ generator = "none"
    /\ run_pc = [r \in Runs |-> "idle"]
    /\ py_hashseed = [r \in Runs |-> 0]
    /\ rng = [r \in Runs |-> 0]
    /\ tables = [r \in Runs |-> NoTables]

\* the configuration lists generate_account_data reads from globals()
ConfigurationLists == {"COMPANIES", "BRANDS", "UBRANDS", "PACKAGES", "TIERS", "OPCOS"}

\* the configurations a call can run with: the account count (0 stands for
\* every non-positive count), the lists that are unset or empty, and the
\* num_months argument (0 stands for every non-positive value)
Configurations ==
    [NUM_ENTERPRISE_ACCOUNTS : 0..NUM_ENTERPRISE_ACCOUNTS,
     unset : SUBSET ConfigurationLists,
     num_months : {0, NumUsageMonths},
     PACKAGES : {PACKAGES}]

\* all([COMPANIES, BRANDS, UBRANDS, PACKAGES, TIERS, OPCOS]) with OPCOS left out
ConfigurationSetButOpcos == config.unset \subseteq {"OPCOS"}

\* all([COMPANIES, BRANDS, UBRANDS, PACKAGES, TIERS, OPCOS])
ConfigurationSet == config.unset = {}

\* a call of function.generate_all_tables
Init ==
    /\ pc = "account_data"
    /\ ea_id = 1
    /\ records = <<>>
    /\ account_df = <<>>
    /\ churn_records = <<>>
    /\ usage_df = <<>>
    /\ files = {}
    /\ save_to_csv \in BOOLEAN
    /\ config \in Configurations
    /\ UsIdle
    /\ RealIdle
    /\ DetIdle
    /\ LongIdle
    /\ PatIdle
    /\ LoadIdle
    /\ AccessIdle

\* one iteration of the loop over ea_id in generate_account_data
GenAccount ==
    /\ pc = "account_data"
    /\ ConfigurationSet
    /\ ea_id <= config.NUM_ENTERPRISE_ACCOUNTS
    /\ \E num_months \in NumMonthsDraws, fixed \in FixedAttributes, will \in BOOLEAN :
         LET months == generate_month_sequence(num_months) IN
         \E idx \in (IF will THEN 1..(Len(months) - 1) ELSE {0}),
            st \in (IF will THEN {"Suspended", "Closed"} ELSE {"Active"}) :
              records' = records \o AccountRecordsOf(ea_id, months, fixed, will, idx, st)
    /\ ea_id' = ea_id + 1
    /\ UNCHANGED <<pc, account_df, churn_records, usage_df, files, save_to_csv, config, notFnVars>>

\* df['MONTH'] = pd.to_datetime(df['MONTH'])
ParseMonth(rows) ==
    [i \in 1..Len(rows) |-> [rows[i] EXCEPT !.MONTH = to_datetime(rows[i].MONTH)]]

\* function.generate_account_table: DataFrame of the records, MONTH parsed,
\* sorted by SERVICE_ACCOUNT_ID and MONTH (Step 1 of generate_all_tables)
generate_account_table(recs) ==
    sort_values(ParseMonth(recs))

\* account_df.to_dict('records') with MONTH formatted back to a string
to_dict_records(df) ==
    [i \in 1..Len(df) |-> [df[i] EXCEPT !.MONTH = strftime(df[i].MONTH)]]

churn_statuses == {"Suspended", "Closed"}

\* function.generate_churn_records on a list of records: one record per
\* SERVICE_ACCOUNT_ID with a Suspended or Closed row, dated at the earliest one
generate_churn_records(account_records) ==
    LET df == sort_values(ParseMonth(account_records))
        churned_accounts == SelectSeq(df, LAMBDA r : r.SA_ACCT_STATUS \in churn_statuses)
        ids == UniqueSeq(Column(churned_accounts, "SERVICE_ACCOUNT_ID"))
    IN [k \in 1..Len(ids) |->
          [USERID     |-> ids[k],
           CHURN_DATE |-> strftime(DateMin({churned_accounts[i].MONTH : i \in
                              {j \in 1..Len(churned_accounts) :
                                  churned_accounts[j].SERVICE_ACCOUNT_ID = ids[k]}})),
           CHURNED    |-> 1]]

\* the configuration check at the head of generate_account_data fails:
\* ValueError, which generate_account_table and generate_all_tables pass on
RaiseValueError ==
    /\ pc = "account_data"
    /\ ~ConfigurationSet
    /\ pc' = "value_error"
    /\ UNCHANGED <<ea_id, records, account_df, churn_records, usage_df, files, save_to_csv,
                   config, notFnVars>>

\* the loop of generate_account_data is over: return records
AccountDataReturn ==
    /\ pc = "account_data"
    /\ ConfigurationSet
    /\ ea_id > config.NUM_ENTERPRISE_ACCOUNTS
    /\ pc' = "account_table"
    /\ UNCHANGED <<ea_id, records, account_df, churn_records, usage_df, files, save_to_csv,
                   config, notFnVars>>

\* the rest of generate_account_table (Step 1): on an empty record list the
\* DataFrame has no MONTH column and account_df['MONTH'] raises KeyError
AccountDataDone ==
    /\ pc = "account_table"
    /\ IF records = <<>>
       THEN /\ pc' = "key_error"
            /\ UNCHANGED <<account_df, records>>
       ELSE /\ account_df' = generate_account_table(records)
            /\ records' = <<>>
            /\ pc' = "churn_records"
    /\ UNCHANGED <<ea_id, churn_records, usage_df, files, save_to_csv, config, notFnVars>>

\* Step 2 of generate_all_tables
Step2ChurnRecords ==
    /\ pc = "churn_records"
    /\ churn_records' = generate_churn_records(to_dict_records(account_df))
    /\ files' = IF save_to_csv THEN files \cup {"churn_records.csv"} ELSE files
    /\ pc' = "usage_table"
    /\ UNCHANGED <<ea_id, records, account_df, usage_df, save_to_csv, config, notFnVars>>

\* usage_start_date when the argument is None
usage_start_date == datetime(2023, 1, 1)

\* start_date inside generate_phone_usage_data.generate_user_usage
start_date == datetime(2023, 1, 1)

DAYS_PER_STEP == 30

\* USERID and MONTH of the rows generate_user_usage builds: one row per
\* month_idx in range(num_months), dated start_date + timedelta(days=30*month_idx)
\* (the metric columns are modelled by SynthesizeRow below)
generate_user_usage_keys(user_id, num_months) ==
    [i \in 1..num_months |->
        [USERID |-> user_id,
         MONTH  |-> strftime(PlusDays(start_date, DAYS_PER_STEP * (i - 1)))]]

RECURSIVE Flatten(_)
Flatten(ss) == IF ss = <<>> THEN <<>> ELSE Head(ss) \o Flatten(Tail(ss))

\* churn_month that generate_usage_table passes for user_id
ChurnMonthOf(user_id, churn_recs, num_months) ==
    LET mine == {k \in 1..Len(churn_recs) : churn_recs[k].USERID = user_id}
    IN IF mine = {} THEN None
       ELSE LET last == CHOOSE k \in mine : \A j \in mine : j <= k
                churn_date == to_datetime(churn_recs[last].CHURN_DATE)
                months_diff == MonthsDiff(churn_date, usage_start_date)
            IN IF 0 <= months_diff /\ months_diff < num_months THEN months_diff ELSE None

\* function.generate_usage_table past the import check: rows of every unique
\* SERVICE_ACCOUNT_ID, MONTH parsed, sorted by USERID and MONTH
generate_usage_table(df, num_months) ==
    LET unique_service_accounts == UniqueSeq(Column(df, "SERVICE_ACCOUNT_ID"))
        all_usage_data == Flatten([k \in 1..Len(unique_service_accounts) |->
                              generate_user_usage_keys(unique_service_accounts[k], num_months)])
        usage == [i \in 1..Len(all_usage_data) |->
                    [SERVICE_ACCOUNT_ID |-> all_usage_data[i].USERID,
                     MONTH |-> to_datetime(all_usage_data[i].MONTH)]]
        sorted == sort_values(usage)
    IN [i \in 1..Len(sorted) |-> [USERID |-> sorted[i].SERVICE_ACCOUNT_ID, MONTH |-> sorted[i].MONTH]]

\* Step 3 of generate_all_tables: generate_user_usage was imported
\* (with no month to generate, the usage DataFrame is empty, has no MONTH
\* column, and usage_df['MONTH'] raises KeyError)
Step3UsageTable ==
    /\ pc = "usage_table"
    /\ usage_df' = generate_usage_table(account_df, config.num_months)
    /\ pc' = IF usage_df' = <<>> THEN "key_error" ELSE "save"
    /\ UNCHANGED <<ea_id, records, account_df, churn_records, files, save_to_csv, config,
                   notFnVars>>

\* Step 3 when the import of generate_phone_usage_data failed: ImportError
Step3ImportError ==
    /\ pc = "usage_table"
    /\ pc' = "raised"
    /\ UNCHANGED <<ea_id, records, account_df, churn_records, usage_df, files, save_to_csv,
                   config, notFnVars>>

\* Step 4 of generate_all_tables and the return
Step4Save ==
    /\ pc = "save"
    /\ files' = IF save_to_csv
                THEN files \cup {"account_attributes_monthly.csv", "phone_usage_data.csv"}
                ELSE files
    /\ pc' = "returned"
    /\ UNCHANGED <<ea_id, records, account_df, churn_records, usage_df, save_to_csv, config,
                   notFnVars>>

Next ==
    \/ GenAccount
    \/ RaiseValueError
    \/ AccountDataReturn
    \/ AccountDataDone
    \/ Step2ChurnRecords
    \/ Step3UsageTable
    \/ Step3ImportError
    \/ Step4Save

Spec == Init /\ [][Next]_vars

----------------------------------------------------------------------------
(* Claims about function.generate_all_tables *)

AccountTableBuilt == pc \in {"churn_records", "usage_table", "save", "returned", "raised"}

AccountRowsOf(said) == {i \in 1..Len(account_df) : account_df[i].SERVICE_ACCOUNT_ID = said}

ServiceAccountIds == {account_df[i].SERVICE_ACCOUNT_ID : i \in 1..Len(account_df)}

ConstantFields ==
    {"COMPANY", "EA_BRAND_ID", "EA_BRAND_NAME", "SA_BRAND_ID", "SA_BRAND_NAME",
     "TIER_ID", "TIER_NAME", "EXTERNAL_ACCOUNT_ID", "BAN", "OPCO_ID"}

\* C1: in the account table, every constant field takes exactly one value
\* across all rows of the same SERVICE_ACCOUNT_ID.
C1_FixedAttributesPerServiceAccount ==
    AccountTableBuilt =>
        \A i, j \in 1..Len(account_df) :
            account_df[i].SERVICE_ACCOUNT_ID = account_df[j].SERVICE_ACCOUNT_ID =>
                \A f \in ConstantFields : account_df[i][f] = account_df[j][f]

\* C2: the account table holds at most one row per (SERVICE_ACCOUNT_ID, MONTH),
\* the primary key of ACCOUNT_ATTRIBUTES_MONTHLY.
C2_PrimaryKeyUnique ==
    AccountTableBuilt =>
        \A i, j \in 1..Len(account_df) :
            (/\ account_df[i].SERVICE_ACCOUNT_ID = account_df[j].SERVICE_ACCOUNT_ID
             /\ account_df[i].MONTH = account_df[j].MONTH) => i = j

ChurnRecordsBuilt == pc \in {"usage_table", "save", "returned", "raised"}

\* C3: the churn date of every churn record is a month with an attribute row of
\* that account, the rows at that month are non-active, and so is every later
\* row of the account.
C3_ChurnDateMatchesStatus ==
    ChurnRecordsBuilt =>
        \A k \in 1..Len(churn_records) :
            LET d == to_datetime(churn_records[k].CHURN_DATE)
                mine == AccountRowsOf(churn_records[k].USERID)
            IN /\ \E i \in mine : account_df[i].MONTH = d
               /\ \A i \in mine :
                    (account_df[i].MONTH = d \/ DateLess(d, account_df[i].MONTH))
                        => account_df[i].SA_ACCT_STATUS \in churn_statuses

\* C4: no usage row of a churned account is dated at or after its churn date,
\* and every usage row falls in a month in which the account has an attribute row.
C4_NoUsageOutsideActiveMonths ==
    pc \in {"save", "returned"} =>
        \A u \in 1..Len(usage_df) :
            /\ \A k \in 1..Len(churn_records) :
                  churn_records[k].USERID = usage_df[u].USERID =>
                      DateLess(usage_df[u].MONTH, to_datetime(churn_records[k].CHURN_DATE))
            /\ \E i \in AccountRowsOf(usage_df[u].USERID) :
                  MonthsDiff(account_df[i].MONTH, usage_df[u].MONTH) = 0

\* C10: generate_all_tables has no partial-failure mode: when it raises, no
\* output file has been written.
C10_NoPartialFailure ==
    pc = "raised" => files = {}

NothingGenerated ==
    /\ records = <<>>
    /\ account_df = <<>>
    /\ churn_records = <<>>
    /\ usage_df = <<>>
    /\ files = {}

\* C11: when a configuration list is unset or empty, the call never gets past
\* the configuration check: it raises ValueError with no record generated, no
\* table built and no file written.
C11_InvalidConfigurationFailsFast ==
    config.unset # {} =>
        /\ pc \in {"account_data", "value_error"}
        /\ NothingGenerated

\* a call with save_to_csv and an unset list that has raised ValueError
C11_Witness ==
    /\ pc = "value_error"
    /\ save_to_csv
    /\ config.unset # {}
    /\ config.NUM_ENTERPRISE_ACCOUNTS > 0

\* the rows of enterprise account ea in records, in the order generated
EnterpriseRows(ea) == SelectSeq(records, LAMBDA r : r.ENTERPRISE_ACCOUNT_ID = ea)

\* C14: for each enterprise account SA_ACCT_STATUS changes at most once: the
\* rows are in strictly increasing month order, every row is Active except
\* possibly the last, and a non-active row (Suspended or Closed) is the last
\* row, is not the account's first month and is followed by no further row.
C14_StatusChangesAtMostOnce ==
    pc = "account_table" =>
        \A ea \in 1..config.NUM_ENTERPRISE_ACCOUNTS :
            LET rows == EnterpriseRows(ea)
            IN /\ Len(rows) >= 1
               /\ \A k \in 1..(Len(rows) - 1) :
                     /\ rows[k].SA_ACCT_STATUS = "Active"
                     /\ DateLess(to_datetime(rows[k].MONTH), to_datetime(rows[k + 1].MONTH))
               /\ rows[Len(rows)].SA_ACCT_STATUS \in {"Active"} \cup churn_statuses
               /\ rows[Len(rows)].SA_ACCT_STATUS \in churn_statuses => Len(rows) >= 2

\* an account became inactive part-way: Active rows, then one Closed row
C14_Witness ==
    /\ pc = "account_table"
    /\ \E ea \in 1..config.NUM_ENTERPRISE_ACCOUNTS :
         LET rows == EnterpriseRows(ea)
         IN /\ Len(rows) >= 3
            /\ Len(rows) < MIN_ACCOUNT_MONTHS
            /\ rows[Len(rows)].SA_ACCT_STATUS = "Closed"

\* C12: with a non-positive account count or month range generation fails
\* fast: generate_account_data never returns an empty record list, and
\* generate_usage_table never builds an empty usage table (the call never runs
\* into the KeyError of an empty DataFrame).
C12_EmptyRangeFailsFast ==
    /\ pc = "account_table" => records # <<>>
    /\ pc # "key_error"
----------------------------------------------------------------------------
(* generate_phone_usage_data: temporal factors and generate_user_usage.     *)
(* Factors are fixed-point numbers in thousandths (1000 is 1.0); products   *)
(* are truncated back to thousandths after each multiplication.             *)

\* month index of usage row u: the number of earlier rows of the same USERID
\* (the rows of a user are built in month_idx order with increasing dates, and
\* the sort by USERID and MONTH keeps that order)
MonthIndexOfUsageRow(u) ==
    Cardinality({j \in 1..(u - 1) : usage_df[j].USERID = usage_df[u].USERID})

\* C17: the usage row at month index i is dated in calendar month
\* usage_start_date + i months, so that each user has one usage row per
\* calendar month and the churn-decline index names the month MONTH names.
C17_UsageRowInItsCalendarMonth ==
    pc \in {"save", "returned"} =>
        \A u \in 1..Len(usage_df) :
            MonthsDiff(usage_df[u].MONTH, usage_start_date) = MonthIndexOfUsageRow(u)

\* C25: with NUM_ENTERPRISE_ACCOUNTS = N the account table holds N distinct
\* SERVICE_ACCOUNT_IDs, and the usage table describes the same N accounts.
C25_OneServiceAccountPerEnterpriseAccount ==
    /\ pc \in {"churn_records", "usage_table", "save", "returned"} =>
          Cardinality(ServiceAccountIds) = config.NUM_ENTERPRISE_ACCOUNTS
    /\ pc \in {"save", "returned"} =>
          Cardinality({usage_df[u].USERID : u \in 1..Len(usage_df)})
             = config.NUM_ENTERPRISE_ACCOUNTS

----------------------------------------------------------------------------
(* A direct call generate_churn_records(account_records, csv_filename=None)  *)
(* on the list generate_account_data returned, or with no argument.         *)

\* records holds the argument account_records from here on. None and the
\* empty list are both false in "elif account_records:", which leaves the
\* ValueError branch; the argument left out is held as the empty list.
CallChurnRecords ==
    /\ pc = "account_table"
    /\ \E given \in BOOLEAN :
         LET account_records == IF given THEN records ELSE <<>> IN
         /\ records' = account_records
         /\ IF account_records = <<>>
            THEN /\ pc' = "churn_value_error"
                 /\ UNCHANGED <<churn_records, files>>
            ELSE /\ churn_records' = generate_churn_records(account_records)
                 /\ files' = files \cup {"churn_records.csv"}
                 /\ pc' = "churn_returned"
    /\ UNCHANGED <<ea_id, account_df, usage_df, save_to_csv, config, notFnVars>>

NextChurn ==
    \/ GenAccount
    \/ RaiseValueError
    \/ AccountDataReturn
    \/ CallChurnRecords

SpecChurn == Init /\ [][NextChurn]_vars

\* rows of the argument with a churn status for a service account
ChurnRowsOf(said) ==
    {i \in 1..Len(records) : /\ records[i].SERVICE_ACCOUNT_ID = said
                             /\ records[i].SA_ACCT_STATUS \in {"Suspended", "Closed"}}

\* C26: generate_churn_records returns exactly one record for each
\* SERVICE_ACCOUNT_ID with a Suspended or Closed row, with CHURNED = 1 and
\* CHURN_DATE the earliest such month, and none for an account whose rows are
\* all Active; with neither account_records nor csv_filename it raises ValueError.
C26_OneChurnRecordPerChurnedAccount ==
    /\ pc = "churn_returned" =>
          /\ \A i \in 1..Len(records) :
                ChurnRowsOf(records[i].SERVICE_ACCOUNT_ID) # {} =>
                    \E k \in 1..Len(churn_records) :
                        /\ churn_records[k].USERID = records[i].SERVICE_ACCOUNT_ID
                        /\ churn_records[k].CHURNED = 1
                        /\ \E r \in ChurnRowsOf(churn_records[k].USERID) :
                              /\ records[r].MONTH = churn_records[k].CHURN_DATE
                              /\ \A q \in ChurnRowsOf(churn_records[k].USERID) :
                                    records[r].MONTH <= records[q].MONTH
          /\ \A k, l \in 1..Len(churn_records) :
                churn_records[k].USERID = churn_records[l].USERID => k = l
          /\ \A k \in 1..Len(churn_records) : ChurnRowsOf(churn_records[k].USERID) # {}
    /\ (pc \in {"churn_returned", "churn_value_error"} /\ records = <<>>)
          => pc = "churn_value_error"

\* a service account with churn rows in two different months got its record
C26_Witness ==
    /\ pc = "churn_returned"
    /\ \E i, j \in 1..Len(records) :
          /\ j \in ChurnRowsOf(records[i].SERVICE_ACCOUNT_ID)
          /\ i \in ChurnRowsOf(records[i].SERVICE_ACCOUNT_ID)
          /\ records[i].MONTH < records[j].MONTH
    /\ churn_records # <<>>

SCALE == 1000

\* int(): truncation toward zero
TruncDiv(a, b) == IF a >= 0 THEN a \div b ELSE -((-a) \div b)

\* round(): to the nearest unit of b
RoundDiv(a, b) == IF a >= 0 THEN (2 * a + b) \div (2 * b) ELSE -((2 * (-a) + b) \div (2 * b))

Mul(a, b) == TruncDiv(a * b, SCALE)

\* the same curve with the sign of the exponent dropped: 1 / (1 + exp(1.5 * (i - 3)))
SigmoidTableDecaying == <<953, 818, 500, 182, 47, 11>>

\* 1 / (1 + exp(-1.5 * (i - growth_months/2))) for growth_months = 6, i = 0..5
SigmoidTable == <<11, 47, 182, 500, 818, 953>>

GROWTH_MONTHS == 6

generate_growth_phase(months, growth_months) ==
    [k \in 1..months |-> IF k - 1 < growth_months THEN SigmoidTable[k] ELSE SCALE]

\* 0.15 * sin(2*pi*m/12 + pi/2) for m = 0..11
SeasonalTable == <<150, 130, 75, 0, -75, -130, -150, -130, -75, 0, 75, 130>>

generate_seasonality(month_index) == SeasonalTable[month_index + 1]

TREND_START_MONTH == 6
CYCLE_LENGTH == 24

\* the same trend with the cycle split in two halves instead of 60% / 40%
generate_trendEvenSplit(months, start_month) ==
    [k \in 1..months |->
        LET i == k - 1
            position == (i - start_month) % CYCLE_LENGTH
        IN IF i < start_month THEN 0
           ELSE IF 10 * position < 5 * CYCLE_LENGTH
                THEN (200 * 10 * position) \div (5 * CYCLE_LENGTH)
                ELSE 200 - (100 * (10 * position - 5 * CYCLE_LENGTH)) \div (5 * CYCLE_LENGTH)]

\* cycle_length * 0.6 = 14.4 and cycle_length * 0.4 = 9.6, in tenths
generate_trend(months, start_month) ==
    [k \in 1..months |->
        LET i == k - 1
            position == (i - start_month) % CYCLE_LENGTH
        IN IF i < start_month THEN 0
           ELSE IF 10 * position < 6 * CYCLE_LENGTH
                THEN (200 * 10 * position) \div (6 * CYCLE_LENGTH)
                ELSE 200 - (100 * (10 * position - 6 * CYCLE_LENGTH)) \div (4 * CYCLE_LENGTH)]

DECLINE_MONTHS == 6

\* values of np.random.uniform(0, 0.05) the model draws
UniformDraws == {0, 25, 50}

\* post[k] is the uniform draw for array index k - 1
generate_churn_decline(months, c, decline_months, post) ==
    [k \in 1..months |->
        LET i == k - 1 IN
        IF c > decline_months
        THEN IF i >= c THEN post[k]
             ELSE IF i >= c - decline_months
                  THEN 300 + (700 * (c - i)) \div decline_months
                  ELSE SCALE
        ELSE SCALE]

\* excerpt of user_profiles: the call totals, their two splits and one minutes metric
user_profiles ==
    [heavy  |-> [PHONE_TOTAL_CALLS |-> 150, PHONE_TOTAL_MINUTES_OF_USE |-> 450,
                 VOICE_CALLS |-> 120, FAX_CALLS |-> 5,
                 PHONE_TOTAL_NUM_INBOUND_CALLS |-> 80, PHONE_TOTAL_NUM_OUTBOUND_CALLS |-> 70],
     medium |-> [PHONE_TOTAL_CALLS |-> 80, PHONE_TOTAL_MINUTES_OF_USE |-> 240,
                 VOICE_CALLS |-> 65, FAX_CALLS |-> 3,
                 PHONE_TOTAL_NUM_INBOUND_CALLS |-> 45, PHONE_TOTAL_NUM_OUTBOUND_CALLS |-> 35],
     light  |-> [PHONE_TOTAL_CALLS |-> 35, PHONE_TOTAL_MINUTES_OF_USE |-> 100,
                 VOICE_CALLS |-> 30, FAX_CALLS |-> 1,
                 PHONE_TOTAL_NUM_INBOUND_CALLS |-> 20, PHONE_TOTAL_NUM_OUTBOUND_CALLS |-> 15]]

Metrics == DOMAIN user_profiles.heavy

\* 'FLOAT' in metric or 'MINS' in metric or 'MIN' in metric
IsFloatMetric(metric) == metric \in {"PHONE_TOTAL_MINUTES_OF_USE"}

\* values of np.random.normal(1.0, 0.05) the model draws; the distribution is
\* unbounded, so a draw below zero is among them
NoiseDraws == {-50, 950, 1050}

\* values of np.random.uniform(0.9, 1.1) the model draws
JitterDraws == {900, 1100}

USER_ID == 1000

\* one metric of month_data: a float metric is round(value, 2), kept in
\* hundredths; a NUMBER metric is max(0, int(value))
MetricValue(metric, base_value, multiplier, jitter) ==
    IF IsFloatMetric(metric)
    THEN RoundDiv(base_value * multiplier * jitter, (SCALE * SCALE) \div 100)
    ELSE LET value == TruncDiv(base_value * multiplier * jitter, SCALE * SCALE)
         IN IF value > 0 THEN value ELSE 0

\* the body of the loop over month_idx in generate_user_usage
SynthesizeRow(user_id, idx, num_months, base_values, decline, noise, jitter) ==
    LET growth == generate_growth_phase(num_months, GROWTH_MONTHS)
        trend == generate_trend(num_months, TREND_START_MONTH)
        seasonality == generate_seasonality(idx % 12)
        m0 == Mul(Mul(Mul(growth[idx + 1], SCALE + trend[idx + 1]), SCALE + seasonality),
                  decline[idx + 1])
        multiplier == Mul(m0, noise)
    IN [f \in Metrics \cup {"USERID", "MONTH"} |->
          IF f = "USERID" THEN user_id
          ELSE IF f = "MONTH"
               THEN strftime(PlusDays(start_date, DAYS_PER_STEP * idx))
               ELSE MetricValue(f, base_values[f], multiplier, jitter[f])]

\* a call generate_user_usage(user_id, num_months, base_values, is_churned, churn_month)
InitUsage ==
    /\ FnIdle
    /\ RealIdle
    /\ DetIdle
    /\ LongIdle
    /\ PatIdle
    /\ LoadIdle
    /\ AccessIdle
    /\ u_pc = "patterns"
    /\ profile_type \in DOMAIN user_profiles
    /\ is_churned \in BOOLEAN
    /\ churn_month \in IF is_churned THEN 0..(NumUsageMonths - 1) ELSE {None}
    /\ churn_decline = <<>>
    /\ month_idx = 0
    /\ month_data = <<>>
    /\ usage_data = 0

\* lines 64-72: the base patterns and the churn decline
UsagePatterns ==
    /\ u_pc = "patterns"
    /\ IF is_churned /\ churn_month # None /\ churn_month # 0
       THEN \E draws \in [(IF churn_month > DECLINE_MONTHS
                             THEN (churn_month + 1)..NumUsageMonths ELSE {}) -> UniformDraws] :
              churn_decline' = generate_churn_decline(NumUsageMonths, churn_month, DECLINE_MONTHS,
                                  [k \in 1..NumUsageMonths |->
                                      IF k \in DOMAIN draws THEN draws[k] ELSE 0])
       ELSE churn_decline' = [k \in 1..NumUsageMonths |-> SCALE]
    /\ u_pc' = "loop"
    /\ UNCHANGED <<profile_type, is_churned, churn_month, month_idx, month_data, usage_data,
                   notUsVars>>

\* lines 76-101: the row of month_idx
UsageMonth ==
    /\ u_pc = "loop"
    /\ month_idx < NumUsageMonths
    /\ \E noise \in NoiseDraws, jitter \in [Metrics -> JitterDraws] :
         month_data' = SynthesizeRow(USER_ID, month_idx, NumUsageMonths,
                                     user_profiles[profile_type], churn_decline, noise, jitter)
    /\ u_pc' = "append"
    /\ UNCHANGED <<profile_type, is_churned, churn_month, churn_decline, month_idx,
                   usage_data, notUsVars>>

\* line 103: usage_data.append(month_data); the next iteration starts a new dict
UsageAppend ==
    /\ u_pc = "append"
    /\ usage_data' = usage_data + 1
    /\ month_idx' = month_idx + 1
    /\ month_data' = <<>>
    /\ u_pc' = "loop"
    /\ UNCHANGED <<profile_type, is_churned, churn_month, churn_decline, notUsVars>>

UsageReturn ==
    /\ u_pc = "loop"
    /\ month_idx = NumUsageMonths
    /\ u_pc' = "returned"
    /\ UNCHANGED <<profile_type, is_churned, churn_month, churn_decline, month_idx,
                   month_data, usage_data, notUsVars>>

NextUsage ==
    \/ UsagePatterns
    \/ UsageMonth
    \/ UsageAppend
    \/ UsageReturn

SpecUsage == InitUsage /\ [][NextUsage]_vars

RowBuilt == u_pc = "append"

\* C6: every metric of every usage row is >= 0 and every metric of the profile
\* is present in the row.
C6_MetricsNonNegative ==
    RowBuilt =>
        /\ Metrics \subseteq DOMAIN month_data
        /\ \A f \in Metrics : month_data[f] >= 0

\* month_index (0 = January, the month of start_date) of the documented peaks,
\* July and December, and of the spring and fall months
PeakMonthIndexes == {6, 11}
SpringFallMonthIndexes == {2, 3, 4, 8, 9, 10}

\* C18: the seasonality factor used for a row of a peak month (July or
\* December) is higher than the factor of every spring or fall month.
C18_PeaksAboveSpringAndFall ==
    (RowBuilt /\ (month_idx % 12) \in PeakMonthIndexes) =>
        \A m \in SpringFallMonthIndexes :
            generate_seasonality(month_idx % 12) > generate_seasonality(m)

\* C19: generate_growth_phase(months, growth_months=6) returns one factor per
\* month, each in (0, 1], non-decreasing in the month index, and exactly 1.0
\* from index growth_months on.
C19_GrowthPhaseShape ==
    u_pc # "patterns" =>
        \A months \in 0..NumUsageMonths :
            LET growth == generate_growth_phase(months, GROWTH_MONTHS)
            IN /\ Len(growth) = months
               /\ \A k \in 1..months :
                     /\ 0 < growth[k] /\ growth[k] <= SCALE
                     /\ k > 1 => growth[k - 1] <= growth[k]
                     /\ k - 1 >= GROWTH_MONTHS => growth[k] = SCALE

\* a row past the growth phase has been built
C19_Witness ==
    /\ RowBuilt
    /\ month_idx >= GROWTH_MONTHS
    /\ generate_growth_phase(NumUsageMonths, GROWTH_MONTHS)[month_idx + 1] = SCALE
    /\ generate_growth_phase(NumUsageMonths, GROWTH_MONTHS)[1] < SCALE

\* months covering the offset and two full cycles
TrendHorizon == TREND_START_MONTH + 2 * CYCLE_LENGTH

\* C22: generate_trend(months, start_month=6) is 0 for every index below
\* start_month; from start_month on it is periodic with period 24, rises
\* strictly over cycle positions 0..14, falls strictly over positions 15..23,
\* and every value lies in [0, 0.20].
C22_TrendShape ==
    u_pc # "patterns" =>
        LET trend == generate_trend(TrendHorizon, TREND_START_MONTH)
            position(i) == (i - TREND_START_MONTH) % CYCLE_LENGTH
        IN /\ Len(trend) = TrendHorizon
           /\ \A i \in 0..(TrendHorizon - 1) :
                 /\ i < TREND_START_MONTH => trend[i + 1] = 0
                 /\ 0 <= trend[i + 1] /\ trend[i + 1] <= 200
                 /\ (i >= TREND_START_MONTH /\ i + CYCLE_LENGTH < TrendHorizon)
                       => trend[i + 1 + CYCLE_LENGTH] = trend[i + 1]
                 /\ (i >= TREND_START_MONTH /\ position(i) \in 0..13)
                       => trend[i + 1] < trend[i + 2]
                 /\ (i >= TREND_START_MONTH /\ position(i) \in 15..22)
                       => trend[i + 1] > trend[i + 2]

\* a row past the start offset has been built with a positive trend
C22_Witness ==
    /\ RowBuilt
    /\ month_idx > TREND_START_MONTH
    /\ generate_trend(NumUsageMonths, TREND_START_MONTH)[month_idx + 1] > 0
    /\ generate_trend(NumUsageMonths, TREND_START_MONTH)[TREND_START_MONTH] = 0

\* C7: in every usage row VOICE_CALLS + FAX_CALLS = PHONE_TOTAL_CALLS and
\* inbound + outbound calls = PHONE_TOTAL_CALLS.
C7_SplitsSumToTotal ==
    RowBuilt =>
        /\ month_data.VOICE_CALLS + month_data.FAX_CALLS = month_data.PHONE_TOTAL_CALLS
        /\ month_data.PHONE_TOTAL_NUM_INBOUND_CALLS + month_data.PHONE_TOTAL_NUM_OUTBOUND_CALLS
              = month_data.PHONE_TOTAL_CALLS

\* C9: for an account told churned at month index c, the decline factor is 1.0
\* before c - 6, non-increasing and at least 0.3 on c - 6 .. c - 1, and at most
\* 0.05 from c on.
C9_ChurnDeclineShape ==
    (u_pc \in {"loop", "returned"} /\ is_churned) =>
        \A i \in 0..(NumUsageMonths - 1) :
            /\ i < churn_month - DECLINE_MONTHS => churn_decline[i + 1] = SCALE
            /\ (churn_month - DECLINE_MONTHS <= i /\ i < churn_month) =>
                  /\ churn_decline[i + 1] >= 300
                  /\ i + 1 < churn_month => churn_decline[i + 2] <= churn_decline[i + 1]
            /\ i >= churn_month => churn_decline[i + 1] <= 50
----------------------------------------------------------------------------
(* generate_realistic_data: the cohort generator.                           *)
(* The observation window is RealMonths months ending at END_DATE (60 in    *)
(* the source, START_DATE 2021-01-01); max_month leaves 6 months before the *)
(* end, as in the source.                                                   *)

RealMonths == 8
NumAccounts == 1

END_DATE == datetime(2025, 12, 31)
START_DATE == PlusMonths(datetime(END_DATE.year, END_DATE.month, 1), -(RealMonths - 1))

LEAVE_MONTHS == 6
max_month == RealMonths - LEAVE_MONTHS

FIRST_ACCOUNT_ID == 1000

NoneDate == datetime(0, 0, 0)

\* churn_rate in thousandths; users is the range num_users is drawn from
SIZE_CATEGORIES ==
    [small  |-> [users |-> <<1, 10>>,   churn_rate |-> 200],
     medium |-> [users |-> <<11, 50>>,  churn_rate |-> 100],
     large  |-> [users |-> <<51, 200>>, churn_rate |-> 100]]

REAL_BRANDS == <<"RingCentral MVP">>

REAL_PACKAGES ==
    [Essentials |-> [tier |-> "Basic", edition |-> "Standard"]]

COMPANY_NAMES == {"Global Solutions"}

\* generate_onboarding_month for the drawn month_offset
generate_onboarding_month(month_offset) == PlusMonths(START_DATE, month_offset)

\* <= of datetimes
DateLeq(a, b) == ~DateLess(b, a)

HIGH_RISK_MONTHS == 6

\* calculate_churn_month for the draws it makes: early_hit is
\* random.random() < 0.30, churn_offset the randint of the early churn, and
\* first_hit the number of months after onboarding of the first monthly draw
\* below monthly_churn_rate (None when no month of the window has one)
calculate_churn_month(onboard_month, is_new_account_high_risk, early_hit, churn_offset, first_hit) ==
    LET months_active == MonthsDiff(END_DATE, onboard_month)
    IN IF is_new_account_high_risk /\ months_active >= HIGH_RISK_MONTHS /\ early_hit
       THEN [churned |-> TRUE, churn_month |-> PlusMonths(onboard_month, churn_offset)]
       ELSE IF first_hit # None /\ DateLeq(PlusMonths(onboard_month, first_hit), END_DATE)
            THEN [churned |-> TRUE, churn_month |-> PlusMonths(onboard_month, first_hit)]
            ELSE [churned |-> FALSE, churn_month |-> NoneDate]

\* the draws calculate_churn_month can make for an account
ChurnDraws(onboard_month, is_new_account_high_risk) ==
    LET months_active == MonthsDiff(END_DATE, onboard_month)
        early == is_new_account_high_risk /\ months_active >= HIGH_RISK_MONTHS
    IN {[early_hit |-> e, churn_offset |-> o, first_hit |-> h] :
          e \in (IF early THEN BOOLEAN ELSE {FALSE}),
          o \in 1..Min2(HIGH_RISK_MONTHS, months_active),
          h \in {None} \cup 0..months_active}

\* dt.strftime('%Y-%m-01')
strftime_month(dt) == dt.year * 10000 + dt.month * 100 + 1

\* months_of_data in generate_usage_data
months_of_dataPlusOne(account) ==
    IF account.churn_month # NoneDate
    THEN MonthsDiff(account.churn_month, account.onboard_month) + 1
    ELSE MonthsDiff(END_DATE, account.onboard_month) + 1

months_of_data(account) ==
    IF account.churn_month # NoneDate
    THEN MonthsDiff(account.churn_month, account.onboard_month)
    ELSE MonthsDiff(END_DATE, account.onboard_month) + 1

\* USERID and MONTH of the usage records of one account (the metric columns
\* come from generate_usage_pattern)
UsageRecordsOf(account) ==
    [k \in 1..months_of_data(account) |->
        [USERID |-> account.account_id,
         MONTH  |-> strftime_month(PlusMonths(account.onboard_month, k - 1))]]

\* Python's hash() of a string: fixed within a process, a function of the
\* process's hash seed across processes
StrCode(str) ==
    CASE str = "RingCentral MVP" -> 11
      [] str = "Essentials" -> 23
      [] str = "Basic" -> 37
      [] OTHER -> 41

hash(str, seed) == StrCode(str) * 7919 + seed * 104729

HashSeeds == {0, 1}

\* values of random.randint(1, 5) drawn for the rows of one account
OpcoDrawKinds == {"same", "varying"}
OpcoDraw(kind, k) == IF kind = "same" THEN 1 ELSE (k % 5) + 1
OpcoDraws(kind) == [k \in 1..RealMonths |-> OpcoDraw(kind, k)]

\* the monthly attribute records of one account
AttributeRecordsOf(account, seed, opco_ids) ==
    LET end_month == IF account.churn_month # NoneDate THEN account.churn_month ELSE END_DATE
        n == MonthsDiff(end_month, account.onboard_month) + 1
    IN [k \in 1..n |->
          LET current_month == PlusMonths(account.onboard_month, k - 1)
              status == IF account.churn_month # NoneDate
                           /\ DateLeq(account.churn_month, current_month)
                        THEN "Churned" ELSE "Active"
          IN [MONTH                 |-> strftime_month(current_month),
              ENTERPRISE_ACCOUNT_ID |-> account.account_id,
              COMPANY               |-> account.company,
              EA_BRAND_ID           |-> hash(account.brand, seed) % 1000,
              EA_BRAND_NAME         |-> account.brand,
              EA_ACCT_STATUS        |-> status,
              SERVICE_ACCOUNT_ID    |-> account.account_id,
              SA_ACCT_STATUS        |-> status,
              PACKAGE_ID            |-> hash(account.package, seed) % 100,
              PACKAGE_NAME          |-> account.package,
              TIER_ID               |-> hash(account.tier, seed) % 10,
              TIER_NAME             |-> account.tier,
              EDITION_NAME          |-> account.edition,
              EXTERNAL_ACCOUNT_ID   |-> account.account_id,
              BAN                   |-> account.account_id,
              OPCO_ID               |-> opco_ids[k]]]

\* generate_realistic_data.generate_churn_records for one account
ChurnRecordOf(account) ==
    IF account.churned
    THEN [USERID |-> account.account_id, CHURN_DATE |-> strftime_month(account.churn_month),
          CHURNED |-> 1]
    ELSE [USERID |-> account.account_id, CHURN_DATE |-> None, CHURNED |-> 0]

\* a run of generate_realistic_data.main in a fresh process
InitReal ==
    /\ FnIdle
    /\ UsIdle
    /\ DetIdle
    /\ LongIdle
    /\ PatIdle
    /\ LoadIdle
    /\ AccessIdle
    /\ r_pc = "accounts"
    /\ account_id = FIRST_ACCOUNT_ID
    /\ accounts = <<>>
    /\ usage_records = <<>>
    /\ attributes_records = <<>>
    /\ r_churn_records = <<>>
    /\ hashseed \in HashSeeds

\* one iteration of the loop of generate_accounts
RealGenAccount ==
    /\ r_pc = "accounts"
    /\ account_id < FIRST_ACCOUNT_ID + NumAccounts
    /\ \E size_category \in DOMAIN SIZE_CATEGORIES, company_name \in COMPANY_NAMES,
          brand_name \in Range(REAL_BRANDS), package_name \in DOMAIN REAL_PACKAGES,
          month_offset \in 0..max_month :
         LET onboard_month == generate_onboarding_month(month_offset)
             months_since_onboard == MonthsDiff(END_DATE, onboard_month)
             is_new_high_risk == months_since_onboard <= HIGH_RISK_MONTHS
         IN \E d \in ChurnDraws(onboard_month, is_new_high_risk) :
              LET churn == calculate_churn_month(onboard_month, is_new_high_risk,
                                                 d.early_hit, d.churn_offset, d.first_hit)
              IN accounts' = Append(accounts,
                    [account_id    |-> account_id,
                     company       |-> company_name,
                     brand         |-> brand_name,
                     package       |-> package_name,
                     tier          |-> REAL_PACKAGES[package_name].tier,
                     edition       |-> REAL_PACKAGES[package_name].edition,
                     size_category |-> size_category,
                     num_users     |-> SIZE_CATEGORIES[size_category].users[1],
                     onboard_month |-> onboard_month,
                     churned       |-> churn.churned,
                     churn_month   |-> churn.churn_month])
    /\ account_id' = account_id + 1
    /\ UNCHANGED <<r_pc, usage_records, attributes_records, r_churn_records, hashseed,
                   notRealVars>>

\* generate_usage_data(accounts)
GenerateUsageData ==
    /\ r_pc = "accounts"
    /\ account_id = FIRST_ACCOUNT_ID + NumAccounts
    /\ usage_records' = Flatten([j \in 1..Len(accounts) |-> UsageRecordsOf(accounts[j])])
    /\ r_pc' = "attributes"
    /\ UNCHANGED <<account_id, accounts, attributes_records, r_churn_records, hashseed,
                   notRealVars>>

\* generate_account_attributes(accounts)
GenerateAccountAttributes ==
    /\ r_pc = "attributes"
    /\ \E kinds \in [1..Len(accounts) -> OpcoDrawKinds] :
         attributes_records' =
            Flatten([j \in 1..Len(accounts) |-> AttributeRecordsOf(accounts[j], hashseed, OpcoDraws(kinds[j]))])
    /\ r_pc' = "churn"
    /\ UNCHANGED <<account_id, accounts, usage_records, r_churn_records, hashseed, notRealVars>>

\* generate_realistic_data.generate_churn_records(accounts)
GenerateChurnRecords ==
    /\ r_pc = "churn"
    /\ r_churn_records' = [j \in 1..Len(accounts) |-> ChurnRecordOf(accounts[j])]
    /\ r_pc' = "done"
    /\ UNCHANGED <<account_id, accounts, usage_records, attributes_records, hashseed,
                   notRealVars>>

NextReal ==
    \/ RealGenAccount
    \/ GenerateUsageData
    \/ GenerateAccountAttributes
    \/ GenerateChurnRecords

SpecReal == InitReal /\ [][NextReal]_vars

\* the months from a to b inclusive, as '%Y-%m-01' strings
MonthStrings(a, b) == {strftime_month(PlusMonths(a, k)) : k \in 0..MonthsDiff(b, a)}

UsageRowsAt(id, m) ==
    {i \in 1..Len(usage_records) : usage_records[i].USERID = id /\ usage_records[i].MONTH = m}

AttributeRowsAt(id, m) ==
    {i \in 1..Len(attributes_records) :
        attributes_records[i].SERVICE_ACCOUNT_ID = id /\ attributes_records[i].MONTH = m}

AllMonthStrings == MonthStrings(START_DATE, END_DATE)

DescriptiveFields ==
    {"COMPANY", "EA_BRAND_ID", "EA_BRAND_NAME", "PACKAGE_ID", "PACKAGE_NAME", "TIER_ID",
     "TIER_NAME", "EDITION_NAME", "EXTERNAL_ACCOUNT_ID", "BAN", "OPCO_ID"}

\* C15: in the attribute rows of generate_account_attributes every descriptive
\* field is identical across all monthly rows of the same account.
C15_DescriptiveFieldsConstant ==
    r_pc \in {"churn", "done"} =>
        \A i, j \in 1..Len(attributes_records) :
            attributes_records[i].SERVICE_ACCOUNT_ID = attributes_records[j].SERVICE_ACCOUNT_ID =>
                \A f \in DescriptiveFields : attributes_records[i][f] = attributes_records[j][f]

----------------------------------------------------------------------------
(* Two runs of one generator with the same configuration and the same seed: *)
(* generate_realistic_data run in two interpreter processes, or             *)
(* function.generate_all_tables called twice in one process.                *)

\* the last onboarding month the docstring allows: 6 months before the month
\* of END_DATE (2025-06)
LastOnboardingMonth == PlusMonths(datetime(END_DATE.year, END_DATE.month, 1), -LEAVE_MONTHS)

\* C28: generate_onboarding_month returns the first day of a month between
\* the start of the window (2021-01 in the source) and 2025-06 inclusive.
C28_OnboardingMonthInRange ==
    \A k \in 1..Len(accounts) :
        /\ accounts[k].onboard_month.day = 1
        /\ DateLeq(START_DATE, accounts[k].onboard_month)
        /\ DateLeq(accounts[k].onboard_month, LastOnboardingMonth)

\* the account was flagged is_new_high_risk by generate_accounts
FlaggedNewHighRisk(account) == MonthsDiff(END_DATE, account.onboard_month) <= HIGH_RISK_MONTHS

\* C29: every account flagged as new-account high risk undergoes the one-shot
\* 30% early-churn check: the draws calculate_churn_month makes for it
\* include the draw compared with 0.30.
C29_FlaggedAccountsTakeEarlyCheck ==
    \A k \in 1..Len(accounts) :
        FlaggedNewHighRisk(accounts[k]) =>
            \E d \in ChurnDraws(accounts[k].onboard_month, TRUE) : d.early_hit

RANDOM_SEED == 42

\* the generator of the random module: its next state is a function of its
\* state alone (a linear congruential step stands for the Mersenne Twister)
NextState(s) == (s * 75 + 74) % 65537

RECURSIVE Advance(_, _)
Advance(s, n) == IF n = 0 THEN s ELSE Advance(NextState(s), n - 1)

\* the value of a draw that left the generator in state s
random_random(s) == s % SCALE
random_randint(a, b, s) == a + (s % (b - a + 1))
random_choice(seq, s) == seq[1 + (s % Len(seq))]

\* cumulative weights of SIZE_CATEGORIES, in thousandths
SMALL_WEIGHT == 600
MEDIUM_WEIGHT == 900

determine_account_size(rand) ==
    IF rand <= SMALL_WEIGHT THEN "small"
    ELSE IF rand <= MEDIUM_WEIGHT THEN "medium"
    ELSE "large"

\* 1 - (1 - annual_churn_rate) ** (1/12), in thousandths
monthly_churn_rate(size_category) ==
    IF SIZE_CATEGORIES[size_category].churn_rate = 200 THEN 18 ELSE 9

EARLY_CHURN_RATE == 300

\* the monthly loop of calculate_churn_month from generator state s: the
\* number of months after onboarding of the first draw below rate, and the
\* state the loop leaves
RECURSIVE MonthlyChurn(_, _, _, _)
MonthlyChurn(s, k, months_active, rate) ==
    IF k > months_active THEN [first_hit |-> None, state |-> s]
    ELSE LET s1 == NextState(s)
         IN IF random_random(s1) < rate THEN [first_hit |-> k, state |-> s1]
            ELSE MonthlyChurn(s1, k + 1, months_active, rate)

\* one iteration of the loop of generate_accounts, its draws taken from the
\* generator in state s0
SeededAccount(id, s0) ==
    LET s1 == NextState(s0)
        size_category == determine_account_size(random_random(s1))
        users == SIZE_CATEGORIES[size_category].users
        s2 == NextState(s1)
        num_users == random_randint(users[1], users[2], s2)
        s4 == Advance(s2, 2)
        company_name == CHOOSE c \in COMPANY_NAMES : TRUE
        s5 == NextState(s4)
        brand_name == random_choice(REAL_BRANDS, s5)
        s6 == NextState(s5)
        package_name == CHOOSE q \in DOMAIN REAL_PACKAGES : TRUE
        s7 == NextState(s6)
        onboard_month == generate_onboarding_month(random_randint(0, max_month, s7))
        months_active == MonthsDiff(END_DATE, onboard_month)
        is_new_high_risk == months_active <= HIGH_RISK_MONTHS
        early == is_new_high_risk /\ months_active >= HIGH_RISK_MONTHS
        s8 == IF early THEN NextState(s7) ELSE s7
        early_hit == early /\ random_random(s8) < EARLY_CHURN_RATE
        s9 == IF early_hit THEN NextState(s8) ELSE s8
        churn_offset == random_randint(1, Min2(HIGH_RISK_MONTHS, months_active), s9)
        monthly == IF early_hit THEN [first_hit |-> None, state |-> s9]
                   ELSE MonthlyChurn(s9, 0, months_active, monthly_churn_rate(size_category))
        churn == calculate_churn_month(onboard_month, is_new_high_risk, early_hit,
                                       churn_offset, monthly.first_hit)
    IN [account |-> [account_id    |-> id,
                     company       |-> company_name,
                     brand         |-> brand_name,
                     package       |-> package_name,
                     tier          |-> REAL_PACKAGES[package_name].tier,
                     edition       |-> REAL_PACKAGES[package_name].edition,
                     size_category |-> size_category,
                     num_users     |-> num_users,
                     onboard_month |-> onboard_month,
                     churned       |-> churn.churned,
                     churn_month   |-> churn.churn_month],
        state |-> monthly.state]

\* generate_accounts from generator state s
RECURSIVE SeededAccounts(_, _, _)
SeededAccounts(id, s, acc) ==
    IF id >= FIRST_ACCOUNT_ID + NumAccounts THEN [accounts |-> acc, state |-> s]
    ELSE LET a == SeededAccount(id, s)
         IN SeededAccounts(id + 1, a.state, Append(acc, a.account))

\* generate_account_attributes from generator state s: one randint(1, 5) per row
RECURSIVE SeededAttributes(_, _, _, _)
SeededAttributes(accts, seed, s, acc) ==
    IF accts = <<>> THEN [attributes |-> acc, state |-> s]
    ELSE LET opco_ids == [k \in 1..RealMonths |-> random_randint(1, 5, Advance(s, k))]
             rows == AttributeRecordsOf(Head(accts), seed, opco_ids)
         IN SeededAttributes(Tail(accts), seed, Advance(s, Len(rows)), acc \o rows)

\* one iteration of the loop of function.generate_account_data, its draws
\* taken from the generator in state s0
SeededEnterpriseAccount(ea, s0) ==
    LET s1 == NextState(s0)
        num_months == random_randint(MIN_ACCOUNT_MONTHS, 20, s1)
        months == generate_month_sequence(num_months)
        s2 == NextState(s1)
        s3 == NextState(s2)
        s5 == Advance(s3, 2)
        s6 == NextState(s5)
        s8 == Advance(s6, 2)
        s9 == NextState(s8)
        s11 == Advance(s9, 2)
        s12 == NextState(s11)
        s13 == NextState(s12)
        fixed == [company            |-> random_choice(COMPANIES, s2),
                  ea_brand           |-> random_choice(BRANDS, s3),
                  service_account_id |-> random_randint(MIN_SERVICE_ACCOUNT_ID, 9999, s5),
                  sa_brand           |-> random_choice(BRANDS, s6),
                  package            |-> random_choice(PACKAGES, s8),
                  tier               |-> random_choice(TIERS, s9),
                  ban                |-> random_randint(MIN_BAN, 999999, s11),
                  opco_id            |-> random_choice(OPCOS, s12)]
        will_become_inactive == random_random(s13) < 50
        s14 == IF will_become_inactive THEN NextState(s13) ELSE s13
        inactive_from_index == random_randint(1, Len(months) - 1, s14)
        s15 == IF will_become_inactive THEN NextState(s14) ELSE s14
        non_active_status == random_choice(<<"Suspended", "Closed">>, s15)
    IN [records |-> AccountRecordsOf(ea, months, fixed, will_become_inactive,
                                     inactive_from_index, non_active_status),
        state |-> s15]

\* function.generate_account_data from generator state s
RECURSIVE SeededAccountData(_, _, _)
SeededAccountData(ea, s, acc) ==
    IF ea > NUM_ENTERPRISE_ACCOUNTS THEN [records |-> acc, state |-> s]
    ELSE LET a == SeededEnterpriseAccount(ea, s)
         IN SeededAccountData(ea + 1, a.state, acc \o a.records)

Generators == {"generate_realistic_data", "function"}

InitDet ==
    /\ FnIdle
    /\ UsIdle
    /\ RealIdle
    /\ LongIdle
    /\ PatIdle
    /\ LoadIdle
    /\ AccessIdle
    /\ generator \in Generators
    /\ run_pc = [r \in Runs |-> "fresh"]
    /\ py_hashseed = [r \in Runs |-> 0]
    /\ rng = [r \in Runs |-> 0]
    /\ tables = [r \in Runs |-> NoTables]

\* the interpreter of a run starts and fixes its string-hash seed; the two
\* calls of function.generate_all_tables share one interpreter
StartInterpreter(r) ==
    /\ run_pc[r] = "fresh"
    /\ \E h \in HashSeeds :
         IF generator = "function"
         THEN /\ r = 1
              /\ py_hashseed' = [q \in Runs |-> h]
         ELSE py_hashseed' = [py_hashseed EXCEPT ![r] = h]
    /\ run_pc' = [run_pc EXCEPT ![r] = "started"]
    /\ UNCHANGED <<generator, rng, tables, notDetVars>>

\* the import of the generator module runs random.seed(42)
\* (function imports generate_phone_usage_data, which seeds)
ImportModule(r) ==
    /\ run_pc[r] = "started"
    /\ rng' = [rng EXCEPT ![r] = RANDOM_SEED]
    /\ run_pc' = [run_pc EXCEPT ![r] = "seeded"]
    /\ UNCHANGED <<generator, py_hashseed, tables, notDetVars>>

\* main of generate_realistic_data: generate_accounts
SeededGenerateAccounts(r) ==
    /\ generator = "generate_realistic_data"
    /\ run_pc[r] = "seeded"
    /\ LET g == SeededAccounts(FIRST_ACCOUNT_ID, rng[r], <<>>)
       IN /\ tables' = [tables EXCEPT ![r].accounts = g.accounts]
          /\ rng' = [rng EXCEPT ![r] = g.state]
    /\ run_pc' = [run_pc EXCEPT ![r] = "usage"]
    /\ UNCHANGED <<generator, py_hashseed, notDetVars>>

\* main of generate_realistic_data: generate_usage_data
SeededGenerateUsageData(r) ==
    /\ generator = "generate_realistic_data"
    /\ run_pc[r] = "usage"
    /\ tables' = [tables EXCEPT ![r].usage =
                    Flatten([j \in 1..Len(tables[r].accounts) |->
                                UsageRecordsOf(tables[r].accounts[j])])]
    /\ run_pc' = [run_pc EXCEPT ![r] = "attributes"]
    /\ UNCHANGED <<generator, py_hashseed, rng, notDetVars>>

\* main of generate_realistic_data: generate_account_attributes
SeededGenerateAccountAttributes(r) ==
    /\ generator = "generate_realistic_data"
    /\ run_pc[r] = "attributes"
    /\ LET g == SeededAttributes(tables[r].accounts, py_hashseed[r], rng[r], <<>>)
       IN /\ tables' = [tables EXCEPT ![r].attributes = g.attributes]
          /\ rng' = [rng EXCEPT ![r] = g.state]
    /\ run_pc' = [run_pc EXCEPT ![r] = "churn"]
    /\ UNCHANGED <<generator, py_hashseed, notDetVars>>

\* main of generate_realistic_data: generate_churn_records
SeededGenerateChurnRecords(r) ==
    /\ generator = "generate_realistic_data"
    /\ run_pc[r] = "churn"
    /\ tables' = [tables EXCEPT ![r].churn =
                    [j \in 1..Len(tables[r].accounts) |-> ChurnRecordOf(tables[r].accounts[j])]]
    /\ run_pc' = [run_pc EXCEPT ![r] = "done"]
    /\ UNCHANGED <<generator, py_hashseed, rng, notDetVars>>

\* a call of function.generate_all_tables: the first after the import, the
\* second after the first returned, from the state the generator is then in
CallGenerateAllTables(r) ==
    /\ generator = "function"
    /\ \/ r = 1 /\ run_pc[1] = "seeded"
       \/ r = 2 /\ run_pc[1] = "done" /\ run_pc[2] = "fresh"
    /\ LET g == SeededAccountData(1, rng[r], <<>>)
           df == generate_account_table(g.records)
           ids == UniqueSeq(Column(df, "SERVICE_ACCOUNT_ID"))
       IN /\ tables' = [tables EXCEPT ![r] =
                          [accounts   |-> <<>>,
                           attributes |-> df,
                           usage      |-> generate_usage_table(df, NumUsageMonths),
                           churn      |-> generate_churn_records(to_dict_records(df))]]
          /\ rng' = [q \in Runs |-> Advance(g.state, Len(ids))]
    /\ run_pc' = [run_pc EXCEPT ![r] = "done"]
    /\ UNCHANGED <<generator, py_hashseed, notDetVars>>

NextDet ==
    \/ \E r \in Runs : StartInterpreter(r)
    \/ \E r \in Runs : ImportModule(r)
    \/ \E r \in Runs : SeededGenerateAccounts(r)
    \/ \E r \in Runs : SeededGenerateUsageData(r)
    \/ \E r \in Runs : SeededGenerateAccountAttributes(r)
    \/ \E r \in Runs : SeededGenerateChurnRecords(r)
    \/ \E r \in Runs : CallGenerateAllTables(r)

SpecDet == InitDet /\ [][NextDet]_vars

BothRunsDone == \A r \in Runs : run_pc[r] = "done"

\* C8: two runs of the same generator with the same configuration and the
\* same seed yield identical account-attribute, usage and churn tables,
\* including the hash-derived id columns.
C8_SameSeedSameTables ==
    BothRunsDone =>
        /\ tables[1].attributes = tables[2].attributes
        /\ tables[1].usage = tables[2].usage
        /\ tables[1].churn = tables[2].churn
----------------------------------------------------------------------------
(* Package changes: test_package_changes.py calls                           *)
(* function.generate_account_data with several packages configured;         *)
(* test_long_accounts.py runs its 48-month variant generate_test_account_data *)

\* function.PACKAGES as the two test scripts set it (first two entries)
TEST_PACKAGES == << <<100, "Basic Plan">>, <<200, "Professional Plan">> >>

\* num_months forced by generate_test_account_data
LONG_MONTHS == 48

PACKAGE_CHANGE_INTERVAL == 24

\* the test of the package change logic, taken every 12 months
IsPackageCheckpointEvery12(idx) == idx > 0 /\ idx % 12 = 0

\* month_idx > 0 and month_idx % 24 == 0
IsPackageCheckpoint(idx) == idx > 0 /\ idx % PACKAGE_CHANGE_INTERVAL = 0

\* test_package_changes.py: configuration, then function.generate_account_data
InitPackageChanges ==
    /\ pc = "account_data"
    /\ ea_id = 1
    /\ records = <<>>
    /\ account_df = <<>>
    /\ churn_records = <<>>
    /\ usage_df = <<>>
    /\ files = {}
    /\ save_to_csv = FALSE
    /\ config = [NUM_ENTERPRISE_ACCOUNTS |-> NUM_ENTERPRISE_ACCOUNTS, unset |-> {},
                 num_months |-> NumUsageMonths, PACKAGES |-> TEST_PACKAGES]
    /\ LongIdle

\* test_long_accounts.py: configuration, then generate_test_account_data
InitLongAccounts ==
    /\ FnIdle
    /\ t_pc = "account"
    /\ t_ea_id = 1
    /\ t_month_idx = 0
    /\ t_fixed = NoFixed
    /\ current_package = <<0, "">>
    /\ t_records = <<>>

InitPackages ==
    /\ InitPackageChanges \/ InitLongAccounts
    /\ UsIdle
    /\ RealIdle
    /\ DetIdle
    /\ PatIdle
    /\ LoadIdle
    /\ AccessIdle

\* head of the loop over ea_id in generate_test_account_data: the fixed
\* attributes and the initial package of the account
LongStartAccount ==
    /\ t_pc = "account"
    /\ t_ea_id <= NUM_ENTERPRISE_ACCOUNTS
    /\ \E company \in Range(COMPANIES), ea_brand \in Range(BRANDS), sa_brand \in Range(BRANDS),
          package \in Range(TEST_PACKAGES), tier \in Range(TIERS), ban \in BanDraws,
          opco_id \in Range(OPCOS) :
         /\ t_fixed' = [company |-> company, ea_brand |-> ea_brand, sa_brand |-> sa_brand,
                        service_account_id |-> MIN_SERVICE_ACCOUNT_ID + t_ea_id - 1,
                        package |-> package, tier |-> tier, ban |-> ban, opco_id |-> opco_id]
         /\ current_package' = package
    /\ t_month_idx' = 0
    /\ t_pc' = "months"
    /\ UNCHANGED <<t_ea_id, t_records, notLongVars>>

\* one iteration of the loop over months: the package change logic, then the
\* record of the month
LongMonth ==
    /\ t_pc = "months"
    /\ t_month_idx < LONG_MONTHS
    /\ \E hit \in BOOLEAN, package \in Range(TEST_PACKAGES) :
         LET months == generate_month_sequence(LONG_MONTHS)
             new_package == IF IsPackageCheckpoint(t_month_idx) /\ hit
                            THEN package ELSE current_package
         IN /\ current_package' = new_package
            /\ t_records' = Append(t_records,
                              AccountRecord(months[t_month_idx + 1], t_ea_id,
                                            [t_fixed EXCEPT !.package = new_package], "Active"))
    /\ t_month_idx' = t_month_idx + 1
    /\ UNCHANGED <<t_pc, t_ea_id, t_fixed, notLongVars>>

\* the loop over months is over: next ea_id
LongEndAccount ==
    /\ t_pc = "months"
    /\ t_month_idx = LONG_MONTHS
    /\ t_ea_id' = t_ea_id + 1
    /\ t_pc' = "account"
    /\ UNCHANGED <<t_month_idx, t_fixed, current_package, t_records, notLongVars>>

\* return records
LongReturn ==
    /\ t_pc = "account"
    /\ t_ea_id > NUM_ENTERPRISE_ACCOUNTS
    /\ t_pc' = "returned"
    /\ UNCHANGED <<t_ea_id, t_month_idx, t_fixed, current_package, t_records, notLongVars>>

NextPackages ==
    \/ GenAccount
    \/ AccountDataReturn
    \/ LongStartAccount
    \/ LongMonth
    \/ LongEndAccount
    \/ LongReturn

SpecPackages == InitPackages /\ [][NextPackages]_vars

\* the rows of enterprise account ea in a record list, in the order generated
\* (chronological)
RowsOfEnterpriseAccount(recs, ea) ==
    SelectSeq(recs, LAMBDA r : r.ENTERPRISE_ACCOUNT_ID = ea)

\* PACKAGE_NAME changes only at a month index that is a positive multiple of 24
ChangesOnlyAtCheckpoints(recs) ==
    \A ea \in 1..NUM_ENTERPRISE_ACCOUNTS :
        LET rows == RowsOfEnterpriseAccount(recs, ea)
        IN \A k \in 2..Len(rows) :
              rows[k].PACKAGE_NAME # rows[k - 1].PACKAGE_NAME =>
                  /\ k - 1 > 0
                  /\ (k - 1) % PACKAGE_CHANGE_INTERVAL = 0

----------------------------------------------------------------------------
(* generate_realistic_data.generate_usage_pattern, called by                *)
(* generate_usage_data for one account. Factors are in thousandths.         *)

\* month indexes of the finished account at which the package-change check
\* was evaluated
CheckpointsEvaluated == {idx \in 0..(t_month_idx - 1) : IsPackageCheckpoint(idx)}

\* C27: in generate_test_account_data every account has 48 monthly rows and
\* the package-change check is evaluated at exactly two checkpoints per
\* account (month 24 and month 48).
C27_TwoCheckpointsPerAccount ==
    (t_pc = "months" /\ t_month_idx = LONG_MONTHS) =>
        /\ Len(RowsOfEnterpriseAccount(t_records, t_ea_id)) = LONG_MONTHS
        /\ Cardinality(CheckpointsEvaluated) = 2

\* num_users of the account the pattern is generated for
PatternUsers == 10

BaseCallsDraws == {50}

\* random.uniform(0.8, 1.2)
PatternJitterDraws == {800, 1200}

\* random.uniform(-0.05, 0.05)
StableDraws == {-50, 50}

\* seasonal_factor of a calendar month
seasonal_factor(month_num) ==
    IF month_num \in {11, 12, 1, 2} THEN 1150
    ELSE IF month_num \in {6, 7, 8} THEN 900
    ELSE SCALE

\* trend_factor at month_idx; variation is the draw of the stable trend
trend_factor(type, idx, variation) ==
    CASE type = "growth"  -> SCALE + idx * 20
      [] type = "decline" -> SCALE - idx * 10
      [] OTHER            -> SCALE + variation

\* decline_factor for months_to_churn (None when the account does not churn)
decline_factor(months_to_churn) ==
    IF months_to_churn # None /\ months_to_churn <= 3
    THEN 500 - (3 - months_to_churn) * 150
    ELSE IF months_to_churn # None /\ months_to_churn <= 6
         THEN 850 - (6 - months_to_churn) * 50
         ELSE SCALE

Max2(a, b) == IF a >= b THEN a ELSE b

\* total_factor of the month at month_idx
total_factor(account, type, idx, variation) ==
    LET current_month == PlusMonths(account.onboard_month, idx)
        months_to_churn == IF account.churn_month # NoneDate
                           THEN MonthsDiff(account.churn_month, current_month)
                           ELSE None
    IN Mul(Mul(seasonal_factor(current_month.month), trend_factor(type, idx, variation)),
           decline_factor(months_to_churn))

\* PHONE_TOTAL_CALLS of the month at month_idx
total_calls(account, base, type, idx, variation, jitter) ==
    Max2(0, TruncDiv(account.num_users * base
                        * Mul(total_factor(account, type, idx, variation), jitter), SCALE))

\* the accounts generate_accounts can produce, up to the fields the usage
\* pattern reads
PatternAccounts ==
    {[account_id    |-> FIRST_ACCOUNT_ID,
      num_users     |-> PatternUsers,
      onboard_month |-> generate_onboarding_month(o),
      churned       |-> calculate_churn_month(generate_onboarding_month(o), FALSE, FALSE, 1, h).churned,
      churn_month   |-> calculate_churn_month(generate_onboarding_month(o), FALSE, FALSE, 1, h).churn_month] :
        o \in 0..max_month, h \in {None} \cup 0..(RealMonths - 1)}

\* generate_usage_data calls generate_usage_pattern for an account
InitPattern ==
    /\ FnIdle
    /\ UsIdle
    /\ RealIdle
    /\ DetIdle
    /\ LongIdle
    /\ LoadIdle
    /\ AccessIdle
    /\ p_pc = "base"
    /\ p_account \in PatternAccounts
    /\ base_calls_per_user = 0
    /\ trend_type = "stable"
    /\ p_month_idx = 0
    /\ p_usage_data = <<>>
    /\ p_row = <<>>

\* the draws before the loop
PatternBase ==
    /\ p_pc = "base"
    /\ base_calls_per_user' \in BaseCallsDraws
    /\ trend_type' \in {"growth", "stable", "decline"}
    /\ p_pc' = "loop"
    /\ UNCHANGED <<p_account, p_month_idx, p_usage_data, p_row, notPatVars>>

\* one iteration of the loop over range(months_data)
PatternMonth ==
    /\ p_pc = "loop"
    /\ p_month_idx < months_of_data(p_account)
    /\ \E variation \in (IF trend_type = "stable" THEN StableDraws ELSE {0}),
          jitter \in PatternJitterDraws :
         p_usage_data' = Append(p_usage_data,
            [USERID |-> p_account.account_id,
             MONTH  |-> strftime_month(PlusMonths(p_account.onboard_month, p_month_idx)),
             PHONE_TOTAL_CALLS |-> total_calls(p_account, base_calls_per_user, trend_type,
                                               p_month_idx, variation, jitter)])
    /\ p_month_idx' = p_month_idx + 1
    /\ UNCHANGED <<p_pc, p_account, base_calls_per_user, trend_type, p_row, notPatVars>>

\* return usage_data
PatternReturn ==
    /\ p_pc = "loop"
    /\ p_month_idx >= months_of_data(p_account)
    /\ p_pc' = "returned"
    /\ UNCHANGED <<p_account, base_calls_per_user, trend_type, p_month_idx, p_usage_data,
                   p_row, notPatVars>>

NextPattern ==
    \/ PatternBase
    \/ PatternMonth
    \/ PatternReturn

SpecPattern == InitPattern /\ [][NextPattern]_vars

RECURSIVE SumCalls(_)
SumCalls(rows) ==
    IF rows = <<>> THEN 0 ELSE Head(rows).PHONE_TOTAL_CALLS + SumCalls(Tail(rows))

\* the last 3 rows (all rows when there are fewer)
LastThree(rows) == SubSeq(rows, Max2(1, Len(rows) - 2), Len(rows))

\* C16: for every churned account the mean of PHONE_TOTAL_CALLS over its last
\* 3 usage months is strictly lower than the mean over all of its usage months.
C16_LastThreeMonthsBelowLifetime ==
    (p_pc = "returned" /\ p_account.churned) =>
        /\ p_usage_data # <<>>
        /\ SumCalls(LastThree(p_usage_data)) * Len(p_usage_data)
              < SumCalls(p_usage_data) * Len(LastThree(p_usage_data))
----------------------------------------------------------------------------
(* snowflake_loader.load_all_data                                           *)

\* the three tables, in the order they are created and loaded
LoaderTables == <<"ACCOUNT_ATTRIBUTES_MONTHLY", "PHONE_USAGE_DATA", "CHURN_RECORDS">>

\* a call load_all_data(truncate, from_dataframes, account_df, usage_df, churn_df);
\* dataframes holds the tables whose DataFrame argument is not None
InitLoader ==
    /\ FnIdle
    /\ UsIdle
    /\ RealIdle
    /\ DetIdle
    /\ LongIdle
    /\ PatIdle
    /\ AccessIdle
    /\ l_pc = "connect"
    /\ l_args \in [truncate : BOOLEAN, from_dataframes : BOOLEAN,
                   dataframes : SUBSET Range(LoaderTables)]
    /\ conn = "none"
    /\ created_tables = {}
    /\ load_results = <<>>
    /\ l_return = "None"

\* conn = get_snowflake_connection(): it raises on a missing environment
\* variable or a failed connect, and the except clause returns False
GetSnowflakeConnection ==
    /\ l_pc = "connect"
    /\ \E outcome \in {"connected", "missing_vars", "connect_failed"} :
         IF outcome = "connected"
         THEN /\ conn' = "open"
              /\ l_pc' = "create"
              /\ UNCHANGED l_return
         ELSE /\ l_return' = "False"
              /\ l_pc' = "returned"
              /\ UNCHANGED conn
    /\ UNCHANGED <<l_args, created_tables, load_results, notLoadVars>>

\* create_all_tables: one create_*_table call; cursor.execute may raise, which
\* nothing catches before the except clause of load_all_data
CreateTable ==
    /\ l_pc = "create"
    /\ \E executed \in BOOLEAN :
         IF executed
         THEN /\ created_tables' = created_tables \cup
                                      {LoaderTables[Cardinality(created_tables) + 1]}
              /\ l_pc' = IF Cardinality(created_tables') = Len(LoaderTables)
                         THEN "load" ELSE "create"
              /\ UNCHANGED l_return
         ELSE /\ l_return' = "False"
              /\ l_pc' = "returned"
              /\ UNCHANGED created_tables
    /\ UNCHANGED <<l_args, conn, load_results, notLoadVars>>

DataFramesMissing ==
    l_args.from_dataframes /\ l_args.dataframes # Range(LoaderTables)

\* raise ValueError("DataFrames must be provided when from_dataframes=True")
RaiseDataFramesMissing ==
    /\ l_pc = "load"
    /\ DataFramesMissing
    /\ l_return' = "False"
    /\ l_pc' = "returned"
    /\ UNCHANGED <<l_args, conn, created_tables, load_results, notLoadVars>>

\* one call of load_dataframe_to_snowflake or load_csv_to_snowflake: it returns
\* (success, nchunks, nrows, output), with success False when write_pandas
\* reports failure or an exception was caught; load_all_data drops the tuple
LoadTable ==
    /\ l_pc = "load"
    /\ ~DataFramesMissing
    /\ \E success \in BOOLEAN :
         load_results' = Append(load_results, success)
    /\ l_pc' = IF Len(load_results') = Len(LoaderTables) THEN "close" ELSE "load"
    /\ UNCHANGED <<l_args, conn, created_tables, l_return, notLoadVars>>

\* conn.close() and return True
CloseAndReturn ==
    /\ l_pc = "close"
    /\ conn' = "closed"
    /\ l_return' = "True"
    /\ l_pc' = "returned"
    /\ UNCHANGED <<l_args, created_tables, load_results, notLoadVars>>

NextLoader ==
    \/ GetSnowflakeConnection
    \/ CreateTable
    \/ RaiseDataFramesMissing
    \/ LoadTable
    \/ CloseAndReturn

SpecLoader == InitLoader /\ [][NextLoader]_vars

AllTablesLoaded ==
    /\ Len(load_results) = Len(LoaderTables)
    /\ \A k \in 1..Len(load_results) : load_results[k]

\* C20: load_all_data returns True only if connecting, creating the tables and
\* loading all three tables succeeded; when any one table load fails it
\* returns False.
C20_TrueOnlyWhenAllLoaded ==
    l_pc = "returned" =>
        /\ l_return = "True" =>
              /\ conn # "none"
              /\ created_tables = Range(LoaderTables)
              /\ AllTablesLoaded
        /\ (\E k \in 1..Len(load_results) : ~load_results[k]) => l_return = "False"
----------------------------------------------------------------------------
(* snowflake_access_manager.AccessManager.setup_read_only_access and        *)
(* setup_data_analyst_access                                                *)

\* C30: every connection load_all_data opened is closed before it returns, on
\* the success path and on every failure path.
C30_ConnectionClosedOnReturn ==
    l_pc = "returned" => conn # "open"

\* the calls a setup makes, in order
SetupSteps(args) ==
    <<"create_role", "grant_warehouse_access", "grant_database_access",
      "grant_schema_access", "grant_table_access", "grant_future_table_access">>
    \o (IF args.user_name THEN <<"grant_role_to_user">> ELSE <<>>)

\* the privileges a step is called with (one statement per privilege; the
\* steps without a privilege list execute one statement)
StepPrivileges(setup, step) ==
    IF setup = "read_only"
    THEN CASE step = "grant_table_access"        -> <<"SELECT">>
           [] step = "grant_future_table_access" -> <<"SELECT">>
           [] step = "create_role"               -> <<"CREATE ROLE">>
           [] step = "grant_role_to_user"        -> <<"ROLE">>
           [] OTHER                              -> <<"USAGE">>
    ELSE CASE step = "grant_warehouse_access"    -> <<"USAGE", "OPERATE">>
           [] step = "grant_database_access"     -> <<"USAGE", "CREATE SCHEMA">>
           [] step = "grant_schema_access"       -> <<"USAGE", "CREATE TABLE", "CREATE VIEW">>
           [] step = "create_role"               -> <<"CREATE ROLE">>
           [] step = "grant_role_to_user"        -> <<"ROLE">>
           [] OTHER                              -> <<"SELECT", "INSERT", "UPDATE", "DELETE">>

\* a call manager.setup_read_only_access(...) or setup_data_analyst_access(...)
InitAccess ==
    /\ FnIdle
    /\ UsIdle
    /\ RealIdle
    /\ DetIdle
    /\ LongIdle
    /\ PatIdle
    /\ LoadIdle
    /\ a_pc = "steps"
    /\ a_args \in [setup : {"read_only", "data_analyst"}, user_name : BOOLEAN,
                   connected : BOOLEAN]
    /\ a_step = 0
    /\ step_results = <<>>
    /\ granted = {}
    /\ a_return = "None"

\* one step: create_role or a grant_* method. It executes its statements in
\* order; the first one that raises (all of them when there is no cursor) ends
\* the step, which catches the exception and returns False. The setup drops
\* the return value.
SetupStep ==
    /\ a_pc = "steps"
    /\ a_step < Len(SetupSteps(a_args))
    /\ LET step == SetupSteps(a_args)[a_step + 1]
           privileges == StepPrivileges(a_args.setup, step)
       IN \E executed \in (IF a_args.connected THEN 0..Len(privileges) ELSE {0}) :
            /\ granted' = granted \cup {<<step, privileges[k]>> : k \in 1..executed}
            /\ step_results' = Append(step_results, executed = Len(privileges))
    /\ a_step' = a_step + 1
    /\ UNCHANGED <<a_pc, a_args, a_return, notAccessVars>>

\* return True
SetupReturn ==
    /\ a_pc = "steps"
    /\ a_step = Len(SetupSteps(a_args))
    /\ a_return' = "True"
    /\ a_pc' = "returned"
    /\ UNCHANGED <<a_args, a_step, step_results, granted, notAccessVars>>

NextAccess ==
    \/ SetupStep
    \/ SetupReturn

SpecAccess == InitAccess /\ [][NextAccess]_vars

\* C21: a setup returns True only if the role creation and every grant step
\* succeeded; when any create_role or grant_* step fails it returns False.
C21_TrueOnlyWhenEveryStepSucceeded ==
    a_pc = "returned" =>
        /\ a_return = "True" => \A k \in 1..Len(step_results) : step_results[k]
        /\ (\E k \in 1..Len(step_results) : ~step_results[k]) => a_return = "False"
----------------------------------------------------------------------------
(* One iteration of the loop of generate_usage_pattern, with every count    *)
(* metric of the dict it appends. The iterations share no state but         *)
(* base_calls_per_user and trend_type, so the iteration of any month_idx    *)
(* in range(months_data) is taken directly.                                 *)

\* random.uniform(0.80, 0.95)
VoiceRatioDraws == {800, 950}

\* random.uniform(0.45, 0.55)
InboundRatioDraws == {450, 550}

\* random.uniform(0.7, 1.0)
MauDraws == {700, 1000}

\* device shares drawn from a range reaching past one half: random.uniform(0.3, 0.6)
DeviceDrawsPastHalf == {300, 500, 600}

\* random.uniform(0.3, 0.5)
DeviceDraws == {300, 500}

\* the count metrics of the appended dict (the minute metrics are floats and
\* are left out)
usage_counts(num_users, calls, factor, voice_ratio, inbound_ratio, mau_draw, hard, soft) ==
    LET voice_calls == TruncDiv(calls * voice_ratio, SCALE)
        fax_calls == calls - voice_calls
        inbound_calls == TruncDiv(calls * inbound_ratio, SCALE)
        outbound_calls == calls - inbound_calls
        mau == Min2(num_users,
                    Max2(1, TruncDiv(num_users * Mul(factor, mau_draw), SCALE)))
        hardphone_calls == TruncDiv(calls * hard, SCALE)
        softphone_calls == TruncDiv(calls * soft, SCALE)
        mobile_calls == calls - hardphone_calls - softphone_calls
    IN [PHONE_TOTAL_CALLS |-> calls,
        VOICE_CALLS |-> voice_calls,
        FAX_CALLS |-> fax_calls,
        PHONE_TOTAL_NUM_INBOUND_CALLS |-> inbound_calls,
        PHONE_TOTAL_NUM_OUTBOUND_CALLS |-> outbound_calls,
        OUT_VOICE_CALLS |-> TruncDiv(voice_calls * (SCALE - inbound_ratio), SCALE),
        IN_VOICE_CALLS |-> TruncDiv(voice_calls * inbound_ratio, SCALE),
        OUT_FAX_CALLS |-> TruncDiv(fax_calls * (SCALE - inbound_ratio), SCALE),
        IN_FAX_CALLS |-> TruncDiv(fax_calls * inbound_ratio, SCALE),
        PHONE_MAU |-> mau,
        CALL_MAU |-> mau,
        FAX_MAU |-> Max2(1, TruncDiv(mau * 300, SCALE)),
        HARDPHONE_CALLS |-> hardphone_calls,
        SOFTPHONE_CALLS |-> softphone_calls,
        MOBILE_CALLS |-> mobile_calls,
        MOBILE_ANDROID_CALLS |-> TruncDiv(mobile_calls * 600, SCALE)]

\* the iteration of some month_idx in range(months_data)
PatternRow ==
    /\ p_pc = "loop"
    /\ \E idx \in 0..(months_of_data(p_account) - 1),
          variation \in (IF trend_type = "stable" THEN StableDraws ELSE {0}),
          jitter \in PatternJitterDraws,
          voice_ratio \in VoiceRatioDraws, inbound_ratio \in InboundRatioDraws,
          mau_draw \in MauDraws, hard \in DeviceDraws, soft \in DeviceDraws :
         /\ p_month_idx' = idx
         /\ p_row' = usage_counts(p_account.num_users,
                        total_calls(p_account, base_calls_per_user, trend_type, idx,
                                    variation, jitter),
                        total_factor(p_account, trend_type, idx, variation),
                        voice_ratio, inbound_ratio, mau_draw, hard, soft)
    /\ p_pc' = "row"
    /\ UNCHANGED <<p_account, base_calls_per_user, trend_type, p_usage_data, notPatVars>>

NextPatternRow ==
    \/ PatternBase
    \/ PatternRow

SpecPatternRow == InitPattern /\ [][NextPatternRow]_vars

CountMetrics == DOMAIN usage_counts(1, 0, 0, 0, 0, 0, 0, 0)

\* C23: in every usage row all count metrics are >= 0, VOICE_CALLS + FAX_CALLS,
\* inbound + outbound calls and HARDPHONE + SOFTPHONE + MOBILE calls each equal
\* PHONE_TOTAL_CALLS, and MOBILE_CALLS >= 0.
C23_CountsNonNegativeAndSplitsExact ==
    p_pc = "row" =>
        /\ \A f \in CountMetrics : p_row[f] >= 0
        /\ p_row.VOICE_CALLS + p_row.FAX_CALLS = p_row.PHONE_TOTAL_CALLS
        /\ p_row.PHONE_TOTAL_NUM_INBOUND_CALLS + p_row.PHONE_TOTAL_NUM_OUTBOUND_CALLS
              = p_row.PHONE_TOTAL_CALLS
        /\ p_row.HARDPHONE_CALLS + p_row.SOFTPHONE_CALLS + p_row.MOBILE_CALLS
              = p_row.PHONE_TOTAL_CALLS
        /\ p_row.MOBILE_CALLS >= 0

\* a row whose device shares are both 50% of an odd total leaves one mobile call
C23_Witness ==
    /\ p_pc = "row"
    /\ p_row.PHONE_TOTAL_CALLS > 0
    /\ p_row.HARDPHONE_CALLS = p_row.SOFTPHONE_CALLS
    /\ p_row.MOBILE_CALLS = 1
    /\ p_row.FAX_CALLS > 0

\* C24: in every usage row IN_VOICE_CALLS + OUT_VOICE_CALLS = VOICE_CALLS and
\* IN_FAX_CALLS + OUT_FAX_CALLS = FAX_CALLS.
C24_DirectionSplitsExact ==
    p_pc = "row" =>
        /\ p_row.IN_VOICE_CALLS + p_row.OUT_VOICE_CALLS = p_row.VOICE_CALLS
        /\ p_row.IN_FAX_CALLS + p_row.OUT_FAX_CALLS = p_row.FAX_CALLS
====
